---- MODULE Spec2Model ----
(***************************************************************************)
(* A model of the options pricing engine of ai-options-strategy            *)
(* (src/options_pricing.py): the analytic pricer black_scholes, the        *)
(* lattice pricer binomial_tree_american and the two Monte Carlo           *)
(* simulators, which draw from numpy's global random generator.            *)
(*                                                                         *)
(* IEEE doubles are modelled as fixed-point numbers with SCALE units per   *)
(* 1.0, extended with the three non-finite values a numpy computation can  *)
(* produce (nan, +inf, -inf).  numpy arithmetic on float64 never raises:   *)
(* a division by zero yields nan or an infinity.                           *)
(***************************************************************************)
EXTENDS Integers, Sequences, FiniteSets, TLC

\* ------------------------------------------------------------------------
\* Floating point values
\* ------------------------------------------------------------------------

\* units per 1.0 of a finite value
SCALE == 1000

Fin(n) == [t |-> "fin", v |-> n]
NaN == [t |-> "nan", v |-> 0]
PInf == [t |-> "pinf", v |-> 0]
NInf == [t |-> "ninf", v |-> 0]

IsFin(a) == a.t = "fin"
IsNaN(a) == a.t = "nan"

One == Fin(SCALE)
Zero == Fin(0)
Half == Fin(SCALE \div 2)

\* a / b rounded to the nearest integer, b > 0
Rnd(a, b) == (2 * a + b) \div (2 * b)

Abs(n) == IF n < 0 THEN -n ELSE n

\* -1, 0, 1 for a value that is not nan
Sign(a) ==
    CASE a.t = "pinf" -> 1
      [] a.t = "ninf" -> -1
      [] OTHER -> IF a.v > 0 THEN 1 ELSE IF a.v < 0 THEN -1 ELSE 0

InfOfSign(s) == IF s > 0 THEN PInf ELSE NInf

FNeg(a) ==
    CASE a.t = "fin" -> Fin(-a.v)
      [] a.t = "pinf" -> NInf
      [] a.t = "ninf" -> PInf
      [] OTHER -> NaN

FAdd(a, b) ==
    CASE IsNaN(a) \/ IsNaN(b) -> NaN
      [] IsFin(a) /\ IsFin(b) -> Fin(a.v + b.v)
      [] IsFin(a) -> b
      [] IsFin(b) -> a
      [] OTHER -> IF a.t = b.t THEN a ELSE NaN

FSub(a, b) == FAdd(a, FNeg(b))

FMul(a, b) ==
    CASE IsNaN(a) \/ IsNaN(b) -> NaN
      [] IsFin(a) /\ IsFin(b) -> Fin(Rnd(a.v * b.v, SCALE))
      [] OTHER -> IF Sign(a) * Sign(b) = 0 THEN NaN
                  ELSE InfOfSign(Sign(a) * Sign(b))

\* numpy true division: x/0 is an infinity, 0/0 is nan, nothing is raised
FDiv(a, b) ==
    CASE IsNaN(a) \/ IsNaN(b) -> NaN
      [] IsFin(a) /\ IsFin(b) ->
            IF b.v = 0
            THEN (IF a.v = 0 THEN NaN ELSE InfOfSign(Sign(a)))
            ELSE IF b.v > 0 THEN Fin(Rnd(a.v * SCALE, b.v))
                 ELSE Fin(Rnd(-(a.v * SCALE), -b.v))
      [] IsFin(a) -> Zero
      [] IsFin(b) -> IF b.v = 0 THEN a
                     ELSE InfOfSign(Sign(a) * Sign(b))
      [] OTHER -> NaN

\* a > b; every comparison with nan is false
FGt(a, b) ==
    CASE IsNaN(a) \/ IsNaN(b) -> FALSE
      [] IsFin(a) /\ IsFin(b) -> a.v > b.v
      [] OTHER -> a.t # b.t /\ (a.t = "pinf" \/ b.t = "ninf")

FGe(a, b) ==
    CASE IsNaN(a) \/ IsNaN(b) -> FALSE
      [] OTHER -> a = b \/ FGt(a, b)

FLe(a, b) == FGe(b, a)

\* Python's builtin max(a, b): the first argument unless the second is greater
PyMax(a, b) == IF FGt(b, a) THEN b ELSE a

\* largest s with s * s <= n
RECURSIVE ISqrt(_)
ISqrt(n) ==
    IF n < 2 THEN n
    ELSE LET s == 2 * ISqrt(n \div 4)
         IN  IF (s + 1) * (s + 1) <= n THEN s + 1 ELSE s

\* np.sqrt
FSqrt(a) ==
    CASE a.t = "nan" \/ a.t = "ninf" -> NaN
      [] a.t = "pinf" -> PInf
      [] OTHER -> IF a.v < 0 THEN NaN ELSE Fin(ISqrt(a.v * SCALE))

\* number of terms of the exponential series
ExpTerms == 16

RECURSIVE ExpSeries(_, _, _, _)
ExpSeries(x, n, term, acc) ==
    IF term = 0 \/ n > ExpTerms THEN acc
    ELSE ExpSeries(x, n + 1, Rnd(term * x, n * SCALE), acc + term)

\* e^x in units, x in units
RECURSIVE ExpUnits(_)
ExpUnits(x) ==
    IF x < 0 THEN Rnd(SCALE * SCALE, ExpUnits(-x))
    ELSE IF x > 2 * SCALE
         THEN LET h == ExpUnits(x \div 2)
              IN  Rnd(Rnd(h * h, SCALE) * ExpUnits(x - 2 * (x \div 2)), SCALE)
         ELSE ExpSeries(x, 1, SCALE, 0)

\* the arguments from which a float64 exp is inf, and down from which it is 0.0
ExpOverflowUnits == 710 * SCALE
ExpUnderflowUnits == -(746 * SCALE)

\* np.exp
FExp(a) ==
    CASE a.t = "nan" -> NaN
      [] a.t = "pinf" -> PInf
      [] a.t = "ninf" -> Zero
      [] a.t = "fin" /\ a.v >= ExpOverflowUnits -> PInf
      [] a.t = "fin" /\ a.v <= ExpUnderflowUnits -> Zero
      [] OTHER -> Fin(ExpUnits(a.v))

\* ln 2 in units
Ln2Units == Rnd(693147 * SCALE, 1000000)

\* ln y in units for y > 0 in units: 2 atanh((y-1)/(y+1)) after halving or
\* doubling y into [1/2, 2]
RECURSIVE LnUnits(_)
LnUnits(y) ==
    IF y > 2 * SCALE THEN LnUnits(Rnd(y, 2)) + Ln2Units
    ELSE IF 2 * y < SCALE THEN LnUnits(2 * y) - Ln2Units
    ELSE LET big == 10 * SCALE
             z == IF y >= SCALE THEN Rnd((y - SCALE) * big, y + SCALE)
                  ELSE -Rnd((SCALE - y) * big, y + SCALE)
             z2 == Rnd(z * z, big)
             z3 == Rnd(z * z2, big)
             z5 == Rnd(z3 * z2, big)
             z7 == Rnd(z5 * z2, big)
         IN  IF z >= 0
             THEN Rnd(2 * (z + Rnd(z3, 3) + Rnd(z5, 5) + Rnd(z7, 7)), 10)
             ELSE -Rnd(2 * ((-z) + Rnd(-z3, 3) + Rnd(-z5, 5) + Rnd(-z7, 7)), 10)

\* np.log
FLog(a) ==
    CASE a.t = "nan" \/ a.t = "ninf" -> NaN
      [] a.t = "pinf" -> PInf
      [] OTHER -> IF a.v < 0 THEN NaN
                  ELSE IF a.v = 0 THEN NInf
                  ELSE Fin(LnUnits(a.v))

\* x ** k for an integer k >= 0; x ** 0 is 1.0 for every x
RECURSIVE FPow(_, _)
FPow(x, k) == IF k <= 0 THEN One ELSE FMul(FPow(x, k - 1), x)

\* the standard normal distribution function at 0.0, 0.1, ..., 4.0, in
\* thousandths
PhiTable ==
    << 500, 540, 579, 618, 655, 691, 726, 758, 788, 816,
       841, 864, 885, 903, 919, 933, 945, 955, 964, 971,
       977, 982, 986, 989, 992, 994, 995, 997, 997, 998,
       999, 999, 999, 1000, 1000, 1000, 1000, 1000, 1000, 1000, 1000 >>

\* Phi(x) in units for x >= 0 in units, interpolated in PhiTable
PhiUnits(x) ==
    LET tenth == SCALE \div 10
        k == x \div tenth
        f == x - k * tenth
    IN  IF k >= Len(PhiTable) - 1 THEN SCALE
        ELSE Rnd((PhiTable[k + 1] * (tenth - f) + PhiTable[k + 2] * f) * SCALE,
                 tenth * 1000)

\* scipy.stats.norm.cdf
NormCdf(a) ==
    CASE a.t = "nan" -> NaN
      [] a.t = "pinf" -> One
      [] a.t = "ninf" -> Zero
      [] OTHER -> IF a.v >= 0 THEN Fin(PhiUnits(a.v))
                  ELSE Fin(SCALE - PhiUnits(-a.v))

\* ------------------------------------------------------------------------
\* Inputs
\* ------------------------------------------------------------------------

\* largest step count N given to the lattice pricer
MaxN == 3

\* spot prices, strikes, maturities (years), rates and volatilities, in units
SVals == {8 * SCALE, 10 * SCALE, 12 * SCALE}
KVals == {10 * SCALE}
TVals == {-(SCALE \div 4), 0, SCALE \div 4, SCALE}
RVals == {-((3 * SCALE) \div 10), 0, SCALE \div 20, (3 * SCALE) \div 10}
SigmaVals == {-(SCALE \div 5), 0, SCALE \div 5, (2 * SCALE) \div 5}
NVals == (-1) .. MaxN
OptionTypes == {"call", "put"}

\* the arguments of black_scholes (N is not one of them: it is held at 0)
BSArgs ==
    [S : SVals, K : KVals, T : TVals, r : RVals, sigma : SigmaVals,
     N : {0}, type : OptionTypes]

\* the arguments of binomial_tree_american
BTArgs ==
    [S : SVals, K : KVals, T : TVals, r : RVals, sigma : SigmaVals,
     N : NVals, type : OptionTypes]

VARIABLES
    op,      \* the pricing operation the caller runs: "bs" or "bt"
    args,    \* its arguments
    pc,      \* the caller's position: "start", "induct", "done"
    ret,     \* the value returned to the caller ("none" until then)
    divs,    \* how many times the d1 division was evaluated
    lat,     \* binomial_tree_american's locals dt, u, d, p
    ap,      \* asset_prices (index i of the code is position i + 1)
    ov,      \* option_values (index i of the code is position i + 1)
    step,    \* the outer loop variable of the backward induction
    idx,     \* the inner loop variable i
    node,    \* the node updated last, with its continuation value
    nodes,   \* the number of node updates made
    rng,     \* the state of numpy's global random generator
    rng0,    \* the state the generator had when the process started
    wk,      \* the Monte Carlo call of each thread: position, arguments,
             \* loop variable t, the paths array, the returned array
    first,   \* the first Monte Carlo call completed, with what it returned
    calls,   \* the number of Monte Carlo calls completed
    greeks,  \* the dictionary calculate_greeks returned
    dstr,    \* the expiration date string given to the time utilities
    now,     \* what datetime.now() reads, in hours since 1 January
    tpc,     \* the position of the caller of the time utilities
    tret,    \* what the time utility returned
    tcalls,  \* the number of calls of a time utility the caller has finished
    tfailed, \* whether a finished call was given a string that did not parse
    mcp,     \* the terminal price distribution the adviser is given
    mcp0,    \* that distribution as the simulator returned it
    mcg,     \* the path grid the futures adviser is given
    mcg0,    \* that grid as the simulator returned it
    analysis, \* the dictionary the last analysis returned
    recs,    \* the recommendations built so far
    top,     \* what get_top_recommendations returned
    apc,     \* the position of the adviser
    legal,   \* session_state.legal_accepted: "absent", "false" or "true"
    checkbox, \* the state of the acceptance checkbox
    click,   \* the widget whose event started the run of the script
    gpc,     \* the position of the run of the script
    ticker,  \* the ticker symbol entered in the sidebar
    current_ticker, \* session_state.current_ticker
    data_loaded, \* session_state.data_loaded
    priced,  \* whether a pricing or recommendation section has been executed
    acceptances,   \* the rows of table acceptances, in rowid order
    data_requests, \* the rows of table data_requests, in rowid order
    acc_seq, \* the largest id table acceptances has ever given out
    req_seq, \* the largest id table data_requests has ever given out
    db0,     \* the two tables before the last call
    dbop,    \* the last call made to the database
    dbret    \* what the last call returned

vars ==
    <<op, args, pc, ret, divs, lat, ap, ov, step, idx, node, nodes, rng,
      rng0, wk, first, calls, greeks, dstr, now, tpc, tret, tcalls, tfailed,
      mcp, mcp0, mcg, mcg0, analysis, recs, top, apc,
      legal, checkbox, click, gpc, ticker, current_ticker, data_loaded, priced,
      acceptances, data_requests, acc_seq, req_seq, db0, dbop, dbret>>

\* the variables of the caller of the time utilities
timeVars == <<dstr, now, tpc, tret, tcalls, tfailed>>

\* the variables of the adviser
adviceVars == <<mcp, mcp0, mcg, mcg0, analysis, recs, top, apc>>

\* the variables of the application around the pricers
\* the variables of a session of the script
gateVars ==
    <<legal, checkbox, click, gpc, ticker, current_ticker, data_loaded, priced>>

\* the variables of the disclaimer database
dbVars == <<acceptances, data_requests, acc_seq, req_seq, db0, dbop, dbret>>

appVars == <<adviceVars, gateVars, dbVars>>

\* the variables of the Monte Carlo callers
mcVars == <<rng0, wk, first, calls>>

\* the variables of the caller of the analytic and the lattice pricer
pricerVars == <<op, args, pc, ret, divs, lat, ap, ov, step, idx, node, nodes>>

NoValue == [t |-> "none", v |-> 0]
NoLat == [dt |-> NoValue, u |-> NoValue, d |-> NoValue, p |-> NoValue]
NoNode == [step |-> -1, i |-> -1, cont |-> NoValue, ex |-> NoValue]

\* ------------------------------------------------------------------------
\* black_scholes
\* ------------------------------------------------------------------------

\* max(S - K, 0) for a call, max(K - S, 0) for a put
Intrinsic(type, S, K) ==
    IF type = "call" THEN PyMax(FSub(S, K), Zero)
    ELSE PyMax(FSub(K, S), Zero)

\* the guard with the expiry instant left to the general branch
BSExpired_Strict(T) == T < 0

\* the guard of the early return
BSExpired(T) == T <= 0

\* d1 = (log(S / K) + (r + 0.5 * sigma ** 2) * T) / (sigma * sqrt(T))
D1(a) ==
    FDiv(FAdd(FLog(FDiv(Fin(a.S), Fin(a.K))),
              FMul(FAdd(Fin(a.r), FMul(Half, FPow(Fin(a.sigma), 2))), Fin(a.T))),
         FMul(Fin(a.sigma), FSqrt(Fin(a.T))))

\* d2 = d1 - sigma * sqrt(T)
D2(a) == FSub(D1(a), FMul(Fin(a.sigma), FSqrt(Fin(a.T))))

\* K * exp(-r * T)
DiscountedStrike(a) == FMul(Fin(a.K), FExp(FMul(FNeg(Fin(a.r)), Fin(a.T))))

BSCallPrice(a) ==
    FSub(FMul(Fin(a.S), NormCdf(D1(a))),
         FMul(DiscountedStrike(a), NormCdf(D2(a))))

\* the put branch with the sign of d2 lost
BSPutPrice_SignOfD2(a) ==
    FSub(FMul(DiscountedStrike(a), NormCdf(D2(a))),
         FMul(Fin(a.S), NormCdf(FNeg(D1(a)))))

BSPutPrice(a) ==
    FSub(FMul(DiscountedStrike(a), NormCdf(FNeg(D2(a)))),
         FMul(Fin(a.S), NormCdf(FNeg(D1(a)))))

\* the general branch
BSPrice(a) == IF a.type = "call" THEN BSCallPrice(a) ELSE BSPutPrice(a)

black_scholes(a) ==
    IF BSExpired(a.T) THEN Intrinsic(a.type, Fin(a.S), Fin(a.K))
    ELSE BSPrice(a)

BlackScholesCall ==
    /\ pc = "start"
    /\ op = "bs"
    /\ ret' = black_scholes(args)
    /\ divs' = IF BSExpired(args.T) THEN divs ELSE divs + 1
    /\ pc' = "done"
    /\ UNCHANGED <<op, args, lat, ap, ov, step, idx, node, nodes, rng, mcVars, greeks, timeVars, appVars>>

\* ------------------------------------------------------------------------
\* binomial_tree_american
\* ------------------------------------------------------------------------

\* the guard with a zero step count let through
BTDegenerate_ZeroSteps(T, N) == T <= 0 \/ N < 0

\* the guard of the early return
BTDegenerate(T, N) == T <= 0 \/ N <= 0

\* dt = T / N; u = exp(sigma * sqrt(dt)); d = 1 / u;
\* p = (exp(r * dt) - d) / (u - d)
Lattice(a) ==
    LET dt == FDiv(Fin(a.T), Fin(a.N * SCALE))
        u == FExp(FMul(Fin(a.sigma), FSqrt(dt)))
        d == FDiv(One, u)
        p == FDiv(FSub(FExp(FMul(Fin(a.r), dt)), d), FSub(u, d))
    IN  [dt |-> dt, u |-> u, d |-> d, p |-> p]

\* S * (u ** ups) * (d ** downs)
NodePrice(a, l, ups, downs) ==
    FMul(FMul(Fin(a.S), FPow(l.u, ups)), FPow(l.d, downs))

\* asset_prices[i] = S * (u ** (N - i)) * (d ** i) for i in range(N + 1)
TerminalPrices(a, l) ==
    [k \in 1 .. (a.N + 1) |-> NodePrice(a, l, a.N - (k - 1), k - 1)]

\* option_values[i] = max(asset_prices[i] - K, 0) or max(K - asset_prices[i], 0)
TerminalValues(a, prices) ==
    [k \in 1 .. (a.N + 1) |-> Intrinsic(a.type, prices[k], Fin(a.K))]

\* the expectation with the weights of the two children exchanged
Continuation_SwappedWeights(a, l, values, i) ==
    FMul(FExp(FMul(FNeg(Fin(a.r)), l.dt)),
         FAdd(FMul(FSub(One, l.p), values[i + 1]), FMul(l.p, values[i + 2])))

\* the expectation reading the slot below the node, which the pass over the
\* layer has already overwritten, in place of the node's own slot
Continuation_OverwrittenChild(a, l, values, i) ==
    FMul(FExp(FMul(FNeg(Fin(a.r)), l.dt)),
         FAdd(FMul(l.p, values[IF i > 0 THEN i ELSE 1]),
              FMul(FSub(One, l.p), values[i + 2])))

\* exp(-r * dt) * (p * option_values[i] + (1 - p) * option_values[i + 1])
Continuation(a, l, values, i) ==
    FMul(FExp(FMul(FNeg(Fin(a.r)), l.dt)),
         FAdd(FMul(l.p, values[i + 1]), FMul(FSub(One, l.p), values[i + 2])))

\* option_values[i] = max(option_values[i], exercise_value)
NodeValue(cont, exercise) == PyMax(cont, exercise)

\* the inner loop stopping one node short of the layer's last
LastOfLayer_OneShort(i, s) == i + 1 >= s

\* i is the last value of range(step + 1)
LastOfLayer(i, s) == i >= s

BinomialEntry ==
    /\ pc = "start"
    /\ op = "bt"
    /\ IF BTDegenerate(args.T, args.N)
       THEN /\ ret' = Intrinsic(args.type, Fin(args.S), Fin(args.K))
            /\ pc' = "done"
            /\ UNCHANGED <<lat, ap, ov, step, idx>>
       ELSE /\ lat' = Lattice(args)
            /\ ap' = TerminalPrices(args, Lattice(args))
            /\ ov' = TerminalValues(args, TerminalPrices(args, Lattice(args)))
            /\ step' = args.N - 1
            /\ idx' = 0
            /\ pc' = "induct"
            /\ UNCHANGED ret
    /\ UNCHANGED <<op, args, divs, node, nodes, rng, mcVars, greeks, timeVars, appVars>>

\* one pass of the body of the inner loop, at node (step, idx)
BinomialNode ==
    /\ pc = "induct"
    /\ step >= 0
    /\ LET stock_price == NodePrice(args, lat, step - idx, idx)
           cont == Continuation(args, lat, ov, idx)
           exercise_value == Intrinsic(args.type, stock_price, Fin(args.K))
       IN  /\ ov' = [ov EXCEPT ![idx + 1] = NodeValue(cont, exercise_value)]
           /\ node' = [step |-> step, i |-> idx, cont |-> cont,
                       ex |-> exercise_value]
    /\ nodes' = nodes + 1
    /\ IF LastOfLayer(idx, step)
       THEN idx' = 0 /\ step' = step - 1
       ELSE idx' = idx + 1 /\ step' = step
    /\ UNCHANGED <<op, args, pc, ret, divs, lat, ap, rng, mcVars, greeks, timeVars, appVars>>

\* return option_values[0]
BinomialReturn ==
    /\ pc = "induct"
    /\ step < 0
    /\ ret' = ov[1]
    /\ pc' = "done"
    /\ UNCHANGED <<op, args, divs, lat, ap, ov, step, idx, node, nodes, rng, mcVars, greeks, timeVars, appVars>>

\* ------------------------------------------------------------------------
\* numpy's global random generator (np.random)
\* ------------------------------------------------------------------------

\* the number of states of the generator
RngMod == 8

\* the generator's step
RngNext(s) == (5 * s + 3) % RngMod

\* the standard normal variate a state yields, in units
ZTable ==
    << -SCALE, SCALE \div 2, 0, (3 * SCALE) \div 2,
       -(SCALE \div 2), SCALE, -((3 * SCALE) \div 2), SCALE \div 4 >>

Variate(s) == Fin(ZTable[(s % Len(ZTable)) + 1])

\* np.random.standard_normal(n) from state s: the n variates and the state
\* the generator is left in
RECURSIVE StandardNormal(_, _)
StandardNormal(s, n) ==
    IF n <= 0 THEN [z |-> <<>>, s |-> s]
    ELSE LET rest == StandardNormal(RngNext(s), n - 1)
         IN  [z |-> <<Variate(s)>> \o rest.z, s |-> rest.s]

\* ------------------------------------------------------------------------
\* monte_carlo_simulation and monte_carlo_price_paths
\* ------------------------------------------------------------------------

\* largest num_simulations and days given to the simulators
MaxM == 2
MaxDays == 3

\* trading days per year
TradingDays == 252

Threads == {1, 2}

\* the arguments of monte_carlo_simulation (days is not one of them)
SimArgs ==
    [S : {10 * SCALE}, T : {-(SCALE \div 4), 0, SCALE}, r : {SCALE \div 20},
     sigma : {0, SCALE \div 5}, days : {0}, M : 1 .. MaxM]

\* the arguments of monte_carlo_price_paths (T is not one of them)
PathArgs ==
    [S : {10 * SCALE}, T : {0}, r : {SCALE \div 20},
     sigma : {0, SCALE \div 5}, days : 0 .. MaxDays, M : 1 .. MaxM]

\* the same with a rate for which exp underflows in one daily step
ExtremePathArgs ==
    [S : {10 * SCALE}, T : {0}, r : {-(200000 * SCALE)},
     sigma : {SCALE \div 5}, days : {MaxDays}, M : {1}]

NoArgs == [S |-> 0, T |-> 0, r |-> 0, sigma |-> 0, days |-> 0, M |-> 0]

IdleCall ==
    [pc |-> "idle", op |-> "none", args |-> NoArgs, seed |-> -1, t |-> 0,
     paths |-> <<>>, ret |-> <<>>, err |-> "none"]

NoCall == [op |-> "none", args |-> NoArgs, ret |-> <<>>]

\* S * exp((r - 0.5 * sigma ** 2) * T + sigma * sqrt(T) * z), one trial
Lognormal(price, r, sigma, T, z) ==
    FMul(price,
         FExp(FAdd(FMul(FSub(Fin(r), FMul(Half, FPow(Fin(sigma), 2))), T),
                   FMul(FMul(Fin(sigma), FSqrt(T)), z))))

\* the general formula applied whatever T is
monte_carlo_simulation_AlwaysDraws(a, s) ==
    LET draw == StandardNormal(s, a.M)
    IN  [ret |-> [k \in 1 .. a.M |->
                     IF a.T <= 0 THEN Fin(a.S)
                     ELSE Lognormal(Fin(a.S), a.r, a.sigma, Fin(a.T), draw.z[k])],
         s |-> draw.s]

\* monte_carlo_simulation from generator state s: the array returned and the
\* state the generator is left in
monte_carlo_simulation(a, s) ==
    IF a.T <= 0
    THEN [ret |-> [k \in 1 .. a.M |-> Fin(a.S)], s |-> s]
    ELSE LET draw == StandardNormal(s, a.M)
         IN  [ret |-> [k \in 1 .. a.M |->
                          Lognormal(Fin(a.S), a.r, a.sigma, Fin(a.T), draw.z[k])],
              s |-> draw.s]

\* dt = 1 / 252
DailyStep == FDiv(One, Fin(TradingDays * SCALE))

\* paths[:, 0] = S finds a column 0 in np.zeros((num_simulations, days));
\* it raises IndexError otherwise
HasColumnZero(a) == a.days >= 1

\* the grid as np.zeros leaves it
InitialPaths_AllZero(a) ==
    [c \in 1 .. a.days |-> [k \in 1 .. a.M |-> Zero]]

\* paths = np.zeros((num_simulations, days)); paths[:, 0] = S
\* (column t of the code is position t + 1; a column holds one value a trial)
InitialPaths(a) ==
    [c \in 1 .. a.days |-> [k \in 1 .. a.M |-> IF c = 1 THEN Fin(a.S) ELSE Zero]]

\* column t by one step from column 0
NextColumn_FromColumnZero(a, grid, t, z) ==
    [grid EXCEPT ![t + 1] =
        [k \in 1 .. a.M |-> Lognormal(grid[1][k], a.r, a.sigma, DailyStep, z[k])]]

\* paths[:, t] = paths[:, t-1] * exp((r - 0.5 * sigma ** 2) * dt
\*                                   + sigma * sqrt(dt) * z)
NextColumn(a, grid, t, z) ==
    [grid EXCEPT ![t + 1] =
        [k \in 1 .. a.M |-> Lognormal(grid[t][k], a.r, a.sigma, DailyStep, z[k])]]

\* the loop of monte_carlo_price_paths run from column t without interruption
RECURSIVE FillPaths(_, _, _, _)
FillPaths(a, grid, t, s) ==
    IF t >= a.days THEN [ret |-> grid, s |-> s]
    ELSE LET draw == StandardNormal(s, a.M)
         IN  FillPaths(a, NextColumn(a, grid, t, draw.z), t + 1, draw.s)

\* monte_carlo_price_paths run alone from generator state s (nothing is
\* returned and nothing drawn when the assignment of column 0 raises)
monte_carlo_price_paths(a, s) ==
    IF HasColumnZero(a) THEN FillPaths(a, InitialPaths(a), 1, s)
    ELSE [ret |-> <<>>, s |-> s]

\* thread w calls monte_carlo_simulation(a): one vectorized draw
SimulationCall(w, a) ==
    /\ wk[w].pc = "idle"
    /\ wk' = [wk EXCEPT ![w] =
                [pc |-> "done", op |-> "sim", args |-> a, seed |-> rng,
                 t |-> 0, paths |-> <<>>,
                 ret |-> monte_carlo_simulation(a, rng).ret, err |-> "none"]]
    /\ rng' = monte_carlo_simulation(a, rng).s
    /\ UNCHANGED <<rng0, first, calls, pricerVars, greeks, timeVars, appVars>>

\* thread w enters monte_carlo_price_paths(a): lines 124-126
PathsEntry(w, a) ==
    /\ wk[w].pc = "idle"
    /\ wk' = [wk EXCEPT ![w] =
                IF HasColumnZero(a)
                THEN [pc |-> "loop", op |-> "paths", args |-> a, seed |-> rng,
                      t |-> 1, paths |-> InitialPaths(a), ret |-> <<>>,
                      err |-> "none"]
                ELSE [pc |-> "raised", op |-> "paths", args |-> a,
                      seed |-> rng, t |-> 0, paths |-> <<>>, ret |-> <<>>,
                      err |-> "IndexError"]]
    /\ UNCHANGED <<rng, rng0, first, calls, pricerVars, greeks, timeVars, appVars>>

\* one pass of the loop over t: a fresh draw, then column t
PathsColumn(w) ==
    /\ wk[w].pc = "loop"
    /\ wk[w].t < wk[w].args.days
    /\ LET draw == StandardNormal(rng, wk[w].args.M)
       IN  /\ wk' = [wk EXCEPT
                       ![w].paths = NextColumn(wk[w].args, wk[w].paths,
                                               wk[w].t, draw.z),
                       ![w].t = wk[w].t + 1]
           /\ rng' = draw.s
    /\ UNCHANGED <<rng0, first, calls, pricerVars, greeks, timeVars, appVars>>

\* return paths
PathsReturn(w) ==
    /\ wk[w].pc = "loop"
    /\ wk[w].t >= wk[w].args.days
    /\ wk' = [wk EXCEPT ![w].pc = "done", ![w].ret = wk[w].paths]
    /\ UNCHANGED <<rng, rng0, first, calls, pricerVars, greeks, timeVars, appVars>>

\* what the call (o, a) returns when it runs alone from generator state s
RunAlone(o, a, s) ==
    IF o = "sim" THEN monte_carlo_simulation(a, s).ret
    ELSE monte_carlo_price_paths(a, s).ret

\* ------------------------------------------------------------------------
\* calculate_greeks
\* ------------------------------------------------------------------------

\* the scalings of the returned theta, vega and rho
ThetaDays == 365
VegaPoints == 100
RhoPoints == 100

Two == Fin(2 * SCALE)

\* 1 / sqrt(2 pi) in millionths
InvSqrt2Pi == 398942

\* scipy.stats.norm.pdf
NormPdf(a) ==
    CASE a.t = "nan" -> NaN
      [] a.t = "pinf" \/ a.t = "ninf" -> Zero
      [] OTHER -> Fin(Rnd(ExpUnits(-Rnd(a.v * a.v, 2 * SCALE)) * InvSqrt2Pi,
                          1000000))

NoGreeks ==
    [delta |-> NoValue, gamma |-> NoValue, theta |-> NoValue,
     vega |-> NoValue, rho |-> NoValue]

\* {'delta': 0, 'gamma': 0, 'theta': 0, 'vega': 0, 'rho': 0}
ZeroGreeks ==
    [delta |-> Zero, gamma |-> Zero, theta |-> Zero, vega |-> Zero,
     rho |-> Zero]

\* the guard with the expiry instant left to the general branch
GreeksExpired_Strict(T) == T < 0

\* the guard of the early return
GreeksExpired(T) == T <= 0

\* d1 = (log(S / K) + (r + 0.5 * sigma ** 2) * T) / (sigma * sqrt(T))
GreeksD1(a) ==
    FDiv(FAdd(FLog(FDiv(Fin(a.S), Fin(a.K))),
              FMul(FAdd(Fin(a.r), FMul(Half, FPow(Fin(a.sigma), 2))), Fin(a.T))),
         FMul(Fin(a.sigma), FSqrt(Fin(a.T))))

\* d2 = d1 - sigma * sqrt(T)
GreeksD2(a) == FSub(GreeksD1(a), FMul(Fin(a.sigma), FSqrt(Fin(a.T))))

\* the put's delta without the shift by 1
GreeksDelta_NoShift(a) == NormCdf(GreeksD1(a))

\* delta = norm.cdf(d1) for a call, norm.cdf(d1) - 1 for a put
GreeksDelta(a) ==
    IF a.type = "call" THEN NormCdf(GreeksD1(a))
    ELSE FSub(NormCdf(GreeksD1(a)), One)

\* -S * norm.pdf(d1) * sigma / (2 * sqrt(T))
ThetaDecay(a) ==
    FDiv(FMul(FMul(FNeg(Fin(a.S)), NormPdf(GreeksD1(a))), Fin(a.sigma)),
         FMul(Two, FSqrt(Fin(a.T))))

\* r * K * exp(-r * T)
ThetaCarry(a) ==
    FMul(FMul(Fin(a.r), Fin(a.K)), FExp(FMul(FNeg(Fin(a.r)), Fin(a.T))))

\* the annualized theta
GreeksTheta(a) ==
    IF a.type = "call"
    THEN FSub(ThetaDecay(a), FMul(ThetaCarry(a), NormCdf(GreeksD2(a))))
    ELSE FAdd(ThetaDecay(a), FMul(ThetaCarry(a), NormCdf(FNeg(GreeksD2(a)))))

\* rho = K * T * exp(-r * T) * norm.cdf(d2), or
\*       -K * T * exp(-r * T) * norm.cdf(-d2)
GreeksRho(a) ==
    IF a.type = "call"
    THEN FMul(FMul(FMul(Fin(a.K), Fin(a.T)),
                   FExp(FMul(FNeg(Fin(a.r)), Fin(a.T)))),
              NormCdf(GreeksD2(a)))
    ELSE FMul(FMul(FMul(FNeg(Fin(a.K)), Fin(a.T)),
                   FExp(FMul(FNeg(Fin(a.r)), Fin(a.T)))),
              NormCdf(FNeg(GreeksD2(a))))

\* gamma with the sign of the option's delta
GreeksGamma_Signed(a) ==
    IF a.type = "call"
    THEN FDiv(NormPdf(GreeksD1(a)),
              FMul(FMul(Fin(a.S), Fin(a.sigma)), FSqrt(Fin(a.T))))
    ELSE FNeg(FDiv(NormPdf(GreeksD1(a)),
                   FMul(FMul(Fin(a.S), Fin(a.sigma)), FSqrt(Fin(a.T)))))

\* gamma = norm.pdf(d1) / (S * sigma * sqrt(T))
GreeksGamma(a) ==
    FDiv(NormPdf(GreeksD1(a)),
         FMul(FMul(Fin(a.S), Fin(a.sigma)), FSqrt(Fin(a.T))))

\* vega = S * norm.pdf(d1) * sqrt(T)
GreeksVega(a) == FMul(FMul(Fin(a.S), NormPdf(GreeksD1(a))), FSqrt(Fin(a.T)))

\* the returned dictionary with vega left in units per 1.00 of volatility
ScaledGreeks_RawVega(a) ==
    [delta |-> GreeksDelta(a),
     gamma |-> GreeksGamma(a),
     theta |-> FDiv(GreeksTheta(a), Fin(ThetaDays * SCALE)),
     vega |-> GreeksVega(a),
     rho |-> FDiv(GreeksRho(a), Fin(RhoPoints * SCALE))]

\* the dictionary returned by the general branch
ScaledGreeks(a) ==
    [delta |-> GreeksDelta(a),
     gamma |-> GreeksGamma(a),
     theta |-> FDiv(GreeksTheta(a), Fin(ThetaDays * SCALE)),
     vega |-> FDiv(GreeksVega(a), Fin(VegaPoints * SCALE)),
     rho |-> FDiv(GreeksRho(a), Fin(RhoPoints * SCALE))]

calculate_greeks(a) ==
    IF GreeksExpired(a.T) THEN ZeroGreeks ELSE ScaledGreeks(a)

CalculateGreeksCall ==
    /\ pc = "start"
    /\ op = "greeks"
    /\ greeks' = calculate_greeks(args)
    /\ divs' = IF GreeksExpired(args.T) THEN divs ELSE divs + 1
    /\ pc' = "done"
    /\ UNCHANGED <<op, args, ret, lat, ap, ov, step, idx, node, nodes, rng,
                   mcVars, timeVars, appVars>>

\* ------------------------------------------------------------------------
\* days_to_expiration and years_to_expiration
\* ------------------------------------------------------------------------

\* days per year of years_to_expiration
DaysPerYear == 365

HoursPerDay == 24

Years == {2027, 2028}

IsLeap(y) == (y % 4 = 0 /\ y % 100 # 0) \/ y % 400 = 0

YearLength(y) == IF IsLeap(y) THEN 366 ELSE 365

DaysInMonth(y, m) ==
    IF m = 2 THEN (IF IsLeap(y) THEN 29 ELSE 28)
    ELSE IF m \in {4, 6, 9, 11} THEN 30 ELSE 31

\* the expiration date strings: year, month and day fields written with a
\* separator, well formed or not
DateStrings ==
    [y : Years, m : {0, 1, 2, 3, 12, 13}, d : {0, 1, 28, 29, 30, 31, 32},
     sep : {"-", "/"}]

\* the moments datetime.now() can read: a calendar date and an hour of the day
Moments ==
    {n \in [y : Years, m : {1, 2, 3, 12}, d : {1, 28, 29, 31}, h : {0, 9, 23}] :
        n.d <= DaysInMonth(n.y, n.m)}

\* datetime.strptime(s, '%Y-%m-%d') succeeds
Parses(s) ==
    /\ s.sep = "-"
    /\ s.m >= 1 /\ s.m <= 12
    /\ s.d >= 1 /\ s.d <= DaysInMonth(s.y, s.m)

RECURSIVE DaysBeforeYear(_)
DaysBeforeYear(y) ==
    IF (y - 1) \notin Years THEN 0
    ELSE DaysBeforeYear(y - 1) + YearLength(y - 1)

RECURSIVE DaysBeforeMonth(_, _)
DaysBeforeMonth(y, m) ==
    IF m <= 1 THEN 0
    ELSE DaysBeforeMonth(y, m - 1) + DaysInMonth(y, m - 1)

\* the day number of a calendar date
Ordinal(y, m, d) == DaysBeforeYear(y) + DaysBeforeMonth(y, m) + d

\* the parsed string, midnight of its date, in hours
ExpirationHours(s) == Ordinal(s.y, s.m, s.d) * HoursPerDay

\* the moment n in hours
MomentHours(n) == Ordinal(n.y, n.m, n.d) * HoursPerDay + n.h

\* timedelta.days: the days of a difference normalized so that the rest of
\* it is a time of day
TimedeltaDays(hours) ==
    IF hours >= 0 THEN hours \div HoursPerDay
    ELSE -((HoursPerDay - 1 - hours) \div HoursPerDay)

\* the day count returned as it was computed
ClampDays_None(days) == days

\* max(days, 0)
ClampDays(days) == IF 0 > days THEN 0 ELSE days

NoDate == [y |-> 0, m |-> 0, d |-> 0, sep |-> ""]
NoMoment == [y |-> 0, m |-> 0, d |-> 0, h |-> 0]
NoTime == [t |-> "none", v |-> 0]

\* a Python int
PyInt(n) == [t |-> "int", v |-> n]

\* days_to_expiration with the ValueError of strptime left to the caller
days_to_expiration_Uncaught(s, n) ==
    IF Parses(s)
    THEN PyInt(ClampDays(TimedeltaDays(ExpirationHours(s) - MomentHours(n))))
    ELSE [t |-> "ValueError", v |-> 0]

\* days_to_expiration: the except clause returns 0
days_to_expiration(s, n) ==
    IF Parses(s)
    THEN PyInt(ClampDays(TimedeltaDays(ExpirationHours(s) - MomentHours(n))))
    ELSE PyInt(0)

\* years_to_expiration: days / 365.0
years_to_expiration(s, n) ==
    FDiv(Fin(days_to_expiration(s, n).v * SCALE), Fin(DaysPerYear * SCALE))

DaysToExpirationCall ==
    /\ tpc = "start"
    /\ tret' = days_to_expiration(dstr, now)
    /\ tpc' = "days"
    /\ UNCHANGED <<dstr, now, tcalls, tfailed, pricerVars, greeks, rng, mcVars, appVars>>

YearsToExpirationCall ==
    /\ tpc = "start"
    /\ tret' = years_to_expiration(dstr, now)
    /\ tpc' = "years"
    /\ UNCHANGED <<dstr, now, tcalls, tfailed, pricerVars, greeks, rng, mcVars, appVars>>

\* the calls a caller makes of the time utilities, and the strings of the
\* calls after the first
MaxTimeCalls == 2

LaterStrings ==
    {s \in DateStrings : s.y = 2028 /\ s.m \in {2, 13} /\ s.d \in {1, 29, 30}}

\* the caller takes the result and calls a time utility again
TimeCallerContinues ==
    /\ tpc \in {"days", "years"}
    /\ tcalls + 1 < MaxTimeCalls
    /\ tcalls' = tcalls + 1
    /\ tfailed' = (tfailed \/ ~Parses(dstr))
    /\ dstr' \in LaterStrings
    /\ tpc' = "start"
    /\ tret' = NoTime
    /\ UNCHANGED <<now, pricerVars, greeks, rng, mcVars, appVars>>

\* no call of a time utility is made
TimeIdle ==
    /\ dstr = NoDate
    /\ now = NoMoment
    /\ tpc = "off"
    /\ tret = NoTime
    /\ tcalls = 0
    /\ tfailed = FALSE

\* ------------------------------------------------------------------------
\* The consumers of a simulated distribution: analyze_monte_carlo_results,
\* analyze_monte_carlo_futures, generate_strategy_recommendation and
\* get_top_recommendations
\* ------------------------------------------------------------------------

\* the largest distribution and the most recommendations of a run
MaxDist == 3
MaxRecs == 2

\* the thresholds of the adviser
ValueThreshold == 10
MinVolume == 10
MinOpenInterest == 50
ContractSize == 100

BuyProbability == (45 * SCALE) \div 100
HighProbability == (55 * SCALE) \div 100
SellProbability == (40 * SCALE) \div 100

\* an array as a sequence of its entries
ArrayOf(f, n) == [k \in 1 .. n |-> f[k]]

RECURSIVE SumUnits(_)
SumUnits(arr) == IF arr = <<>> THEN 0 ELSE Head(arr).v + SumUnits(Tail(arr))

\* np.mean of an array of numbers
MeanOf(arr) == Fin(Rnd(SumUnits(arr), Len(arr)))

\* np.mean of a boolean array
FractionOf(flags) ==
    Fin(Rnd(Cardinality({k \in 1 .. Len(flags) : flags[k]}) * SCALE, Len(flags)))

\* np.std: the root of the mean squared deviation from the mean
StdOf(arr) ==
    LET m == MeanOf(arr)
    IN  FSqrt(MeanOf([k \in 1 .. Len(arr) |-> FPow(FSub(arr[k], m), 2)]))

\* arr with x put in before the first entry greater than x
RECURSIVE InsertSorted(_, _)
InsertSorted(arr, x) ==
    IF arr = <<>> THEN <<x>>
    ELSE IF x.v <= Head(arr).v THEN <<x>> \o arr
         ELSE <<Head(arr)>> \o InsertSorted(Tail(arr), x)

\* a sorted copy of arr
RECURSIVE SortedCopy(_)
SortedCopy(arr) ==
    IF arr = <<>> THEN <<>> ELSE InsertSorted(SortedCopy(Tail(arr)), Head(arr))

\* np.percentile(arr, q): linear interpolation between the order statistics
Percentile(arr, q) ==
    LET sorted == SortedCopy(arr)
        h == (Len(arr) - 1) * q
        lo == h \div 100
        part == h % 100
    IN  IF part = 0 THEN sorted[lo + 1]
        ELSE Fin(sorted[lo + 1].v
                   + Rnd((sorted[lo + 2].v - sorted[lo + 1].v) * part, 100))

\* the array np.percentile was given, had it sorted it in place
PercentileInput_SortedInPlace(arr) == SortedCopy(arr)

\* the array np.percentile was given, after the call (overwrite_input=False)
PercentileInput(arr) == arr

NoAnalysis == [kind |-> "none"]

\* analyze_monte_carlo_results: the dictionary returned and the array it was
\* given as the call leaves it
analyze_monte_carlo_results(prices, strike, type) ==
    LET n == Len(prices)
        payoffs == [k \in 1 .. n |->
                      IF type = "call"
                      THEN Fin(IF prices[k].v - strike > 0
                               THEN prices[k].v - strike ELSE 0)
                      ELSE Fin(IF strike - prices[k].v > 0
                               THEN strike - prices[k].v ELSE 0)]
        itm == [k \in 1 .. n |->
                  IF type = "call" THEN prices[k].v > strike
                  ELSE prices[k].v < strike]
    IN  [ret |-> [kind |-> "options",
                  probability_itm |-> FractionOf(itm),
                  expected_payoff |-> MeanOf(payoffs),
                  payoff_std |-> StdOf(payoffs),
                  percentiles |-> [q \in {10, 25, 50, 75, 90} |->
                                     Percentile(prices, q)]],
         arr |-> PercentileInput(prices)]

\* analyze_monte_carlo_futures: the dictionary returned and the grid it was
\* given as the call leaves it (a grid is its columns; None is no column)
analyze_monte_carlo_futures(grid, current_price) ==
    IF grid = <<>>
    THEN [ret |-> [kind |-> "futures",
                   probability_up |-> Half, probability_down |-> Half,
                   expected_price |-> Fin(current_price),
                   upside_potential |-> Zero, downside_risk |-> Zero,
                   volatility |-> Zero],
          grid |-> grid]
    ELSE LET final_prices == grid[Len(grid)]
             up == [k \in 1 .. Len(final_prices) |->
                      final_prices[k].v > current_price]
         IN  [ret |-> [kind |-> "futures",
                       probability_up |-> FractionOf(up),
                       probability_down |-> FSub(One, FractionOf(up)),
                       expected_price |-> MeanOf(final_prices),
                       upside_potential |->
                           FSub(Percentile(final_prices, 75), Fin(current_price)),
                       downside_risk |->
                           FSub(Fin(current_price), Percentile(final_prices, 25)),
                       volatility |-> StdOf(final_prices)],
              grid |-> [grid EXCEPT ![Len(grid)] = PercentileInput(final_prices)]]

\* analyze_option_value: the valuation of a market price against a fair value
analyze_option_value(fair_value, market_price) ==
    IF market_price <= 0 THEN [valuation |-> "unknown", diff_pct |-> Zero]
    ELSE LET diff_pct ==
                 FMul(FDiv(Fin(market_price - fair_value), Fin(fair_value)),
                      Fin(100 * SCALE))
         IN  IF diff_pct.v < -(ValueThreshold * SCALE)
             THEN [valuation |-> "undervalued", diff_pct |-> diff_pct]
             ELSE IF diff_pct.v > ValueThreshold * SCALE
                  THEN [valuation |-> "overvalued", diff_pct |-> diff_pct]
                  ELSE [valuation |-> "fair", diff_pct |-> diff_pct]

\* calculate_risk_adjusted_return
calculate_risk_adjusted_return(expected_return, probability, risk) ==
    IF risk.v <= 0 THEN Zero
    ELSE FDiv(FMul(expected_return, probability), risk)

\* the action and confidence chosen from the valuation and the probability
InitialAdvice(type, valuation, prob) ==
    IF valuation = "undervalued" /\ prob.v > BuyProbability
    THEN [action |-> IF type = "call" THEN "BUY CALL" ELSE "BUY PUT",
          confidence |-> IF prob.v > HighProbability THEN "HIGH" ELSE "MEDIUM"]
    ELSE IF valuation = "overvalued" /\ prob.v < SellProbability
         THEN [action |-> IF type = "call" THEN "SELL CALL" ELSE "SELL PUT",
               confidence |-> "MEDIUM"]
         ELSE [action |-> "HOLD", confidence |-> "LOW"]

\* the liquidity check lowering the confidence alone
LiquidityCheck_KeepsAction(advice, volume, oi) ==
    IF volume < MinVolume \/ oi < MinOpenInterest
    THEN [action |-> advice.action, confidence |-> "LOW"]
    ELSE advice

\* the liquidity check
LiquidityCheck(advice, volume, oi) ==
    IF volume < MinVolume \/ oi < MinOpenInterest
    THEN [action |-> "HOLD", confidence |-> "LOW"]
    ELSE advice

\* the rows of an option chain: one option's quote
OptionRows ==
    {row \in [strike : {9 * SCALE, 11 * SCALE},
              market : {0, SCALE},
              fair : {(4 * SCALE) \div 5, SCALE, (5 * SCALE) \div 4},
              volume : {MinVolume - 1, MinVolume},
              oi : {MinOpenInterest - 1, MinOpenInterest}] :
        /\ row.volume >= MinVolume \/ row.oi >= MinOpenInterest
        /\ row.market = 0
              => (row.fair = SCALE /\ row.strike = 9 * SCALE
                    /\ row.volume >= MinVolume /\ row.oi >= MinOpenInterest)}

\* the recommendation for one option: one pass of a loop over the strikes
Recommendation(prices, type, row) ==
    LET value == analyze_option_value(row.fair, row.market)
        mc_analysis == analyze_monte_carlo_results(prices, row.strike, type).ret
        cost == Fin(row.market * ContractSize)
        expected_return ==
            IF cost.v > 0
            THEN FSub(FMul(mc_analysis.expected_payoff, Fin(ContractSize * SCALE)),
                      cost)
            ELSE Zero
        advice == LiquidityCheck(
                      InitialAdvice(type, value.valuation,
                                    mc_analysis.probability_itm),
                      row.volume, row.oi)
    IN  [type |-> type, strike |-> row.strike,
         action |-> advice.action, confidence |-> advice.confidence,
         valuation |-> value.valuation,
         probability_itm |-> mc_analysis.probability_itm,
         risk_adjusted_return |->
             calculate_risk_adjusted_return(expected_return,
                                            mc_analysis.probability_itm, cost),
         volume |-> row.volume, open_interest |-> row.oi]

\* the orders sort_values can leave the rows in
RECURSIVE Orderings(_)
Orderings(rows) ==
    IF rows = <<>> THEN {<<>>}
    ELSE UNION {{<<rows[k]>> \o rest :
                    rest \in Orderings(
                        [j \in 1 .. (Len(rows) - 1) |->
                            IF j < k THEN rows[j] ELSE rows[j + 1]])} :
                k \in 1 .. Len(rows)}

SortedByReturn(rows) ==
    \A k \in 1 .. (Len(rows) - 1) :
        rows[k].risk_adjusted_return.v >= rows[k + 1].risk_adjusted_return.v

\* the rows get_top_recommendations keeps
Actionable(rec) == rec.action # "HOLD" /\ rec.confidence \in {"HIGH", "MEDIUM"}

\* get_top_recommendations
get_top_recommendations(rows, top_n) ==
    LET actionable == SelectSeq(rows, Actionable)
    IN  SubSeq(actionable, 1, IF Len(actionable) < top_n THEN Len(actionable)
                              ELSE top_n)

\* the distributions handed to the adviser
AdviceSimArgs ==
    [S : {10 * SCALE}, T : {SCALE}, r : {SCALE \div 20},
     sigma : {SCALE \div 5}, days : {0}, M : 2 .. MaxDist]

AdvicePathArgs ==
    [S : {10 * SCALE}, T : {0}, r : {SCALE \div 20},
     sigma : {SCALE \div 5}, days : 1 .. MaxDays, M : 2 .. MaxDist]

\* one pass of a loop of generate_strategy_recommendation: the calls first,
\* then the puts
RecommendOption(type, row) ==
    /\ apc \in {"ready", "calls", "puts"}
    /\ mcp # <<>>
    /\ Len(recs) < MaxRecs
    /\ type = "call" => apc # "puts"
    /\ recs' = Append(recs, Recommendation(mcp, type, row))
    /\ analysis' = analyze_monte_carlo_results(mcp, row.strike, type).ret
    /\ mcp' = analyze_monte_carlo_results(mcp, row.strike, type).arr
    /\ apc' = IF type = "call" THEN "calls" ELSE "puts"
    /\ UNCHANGED <<mcp0, mcg, mcg0, top>>
    /\ UNCHANGED <<pricerVars, greeks, rng, mcVars, timeVars, gateVars, dbVars>>

\* the end of generate_strategy_recommendation: sort_values
SortRecommendations ==
    /\ apc \in {"ready", "calls", "puts"}
    /\ mcp # <<>>
    /\ recs' \in {rows \in Orderings(recs) : SortedByReturn(rows)}
    /\ apc' = "sorted"
    /\ UNCHANGED <<mcp, mcp0, mcg, mcg0, analysis, top>>
    /\ UNCHANGED <<pricerVars, greeks, rng, mcVars, timeVars, gateVars, dbVars>>

\* get_top_recommendations(recommendations_df, top_n)
TopRecommendations(top_n) ==
    /\ apc = "sorted"
    /\ top' = get_top_recommendations(recs, top_n)
    /\ apc' = "top"
    /\ UNCHANGED <<mcp, mcp0, mcg, mcg0, analysis, recs>>
    /\ UNCHANGED <<pricerVars, greeks, rng, mcVars, timeVars, gateVars, dbVars>>

\* the futures adviser analyzes the grid against a current price
AnalyzeFutures(current_price) ==
    /\ apc \in {"ready", "futures"}
    /\ mcp = <<>>
    /\ analysis' = analyze_monte_carlo_futures(mcg, current_price).ret
    /\ mcg' = analyze_monte_carlo_futures(mcg, current_price).grid
    /\ apc' = "futures"
    /\ UNCHANGED <<mcp, mcp0, mcg0, recs, top>>
    /\ UNCHANGED <<pricerVars, greeks, rng, mcVars, timeVars, gateVars, dbVars>>

\* ------------------------------------------------------------------------
\* A session of the script app.py: each widget event runs the script again
\* from its first line with the session state kept
\* ------------------------------------------------------------------------

Tickers == {"AAPL", "MSFT", "ES=F"}

\* the other variables of the model, which the script leaves alone
notGateVars ==
    <<pricerVars, greeks, rng, mcVars, timeVars, adviceVars, dbVars>>

\* the gate closed only for a session state without the key
GateClosed_OnlyAbsent(l) == l = "absent"

\* if not st.session_state.legal_accepted
GateClosed(l) == l # "true"

\* the page is displayed and the user acts on a widget of it: the checkbox
\* and the buttons of the disclaimer, or the sidebar of the application
UserEvent ==
    /\ gpc = "idle"
    /\ \/ /\ legal # "true"
          /\ \/ checkbox' = ~checkbox /\ click' = "none"
             \/ checkbox /\ click' = "accept" /\ UNCHANGED checkbox
             \/ click' = "decline" /\ UNCHANGED checkbox
          /\ UNCHANGED ticker
       \/ /\ legal = "true"
          /\ \/ click' = "load" /\ UNCHANGED ticker
             \/ click' = "none" /\ ticker' \in Tickers
          /\ UNCHANGED checkbox
    /\ gpc' = "init"
    /\ UNCHANGED <<legal, current_ticker, data_loaded, priced>>
    /\ UNCHANGED notGateVars

\* lines 28-29: the key is created False when the session has none
InitialiseSession ==
    /\ gpc = "init"
    /\ legal' = IF legal = "absent" THEN "false" ELSE legal
    /\ gpc' = "gate"
    /\ UNCHANGED <<checkbox, click, ticker, current_ticker, data_loaded, priced>>
    /\ UNCHANGED notGateVars

\* line 109
GateCheck ==
    /\ gpc = "gate"
    /\ gpc' = IF GateClosed(legal) THEN "disclaimer" ELSE "sidebar"
    /\ UNCHANGED <<legal, checkbox, click, ticker, current_ticker, data_loaded,
                   priced>>
    /\ UNCHANGED notGateVars

\* lines 110-317: the disclaimer, its checkbox and buttons; st.rerun() starts
\* the script again, st.stop() ends the run
Disclaimer ==
    /\ gpc = "disclaimer"
    /\ IF checkbox /\ click = "accept"
       THEN legal' = "true" /\ gpc' = "init"
       ELSE legal' = legal /\ gpc' = "idle"
    /\ click' = "none"
    /\ UNCHANGED <<checkbox, ticker, current_ticker, data_loaded, priced>>
    /\ UNCHANGED notGateVars

\* lines 340-366: the data of the ticker is loaded, or loading fails
LoadData ==
    /\ gpc = "sidebar"
    /\ IF click = "load" \/ current_ticker # ticker
       THEN \/ data_loaded' = TRUE /\ current_ticker' = ticker
            \/ data_loaded' = FALSE /\ UNCHANGED current_ticker
       ELSE UNCHANGED <<data_loaded, current_ticker>>
    /\ gpc' = "sections"
    /\ click' = "none"
    /\ UNCHANGED <<legal, checkbox, ticker, priced>>
    /\ UNCHANGED notGateVars

\* lines 369-2092: the pricing and recommendation sections
Sections ==
    /\ gpc = "sections"
    /\ priced' = (priced \/ data_loaded)
    /\ gpc' = "idle"
    /\ UNCHANGED <<legal, checkbox, click, ticker, current_ticker, data_loaded>>
    /\ UNCHANGED notGateVars

\* no session of the script is running
GateIdle ==
    /\ legal = "absent"
    /\ checkbox = FALSE
    /\ click = "none"
    /\ gpc = "off"
    /\ ticker = "AAPL"
    /\ current_ticker = "none"
    /\ data_loaded = FALSE
    /\ priced = FALSE

\* the adviser is not running
AdviceIdle ==
    /\ mcp = <<>>
    /\ mcp0 = <<>>
    /\ mcg = <<>>
    /\ mcg0 = <<>>
    /\ analysis = NoAnalysis
    /\ recs = <<>>
    /\ top = <<>>
    /\ apc = "off"

\* ---------------------------------------------------------------------
\* DisclaimerDatabase: the acceptance records and the data requests
\* ---------------------------------------------------------------------

\* the number of rows each table is given over a run
MaxRows == 3

\* the session ids the calls are made with
Sessions == {"s1", "s2"}

\* the request types log_data_request is called with
RequestTypes == {"access", "deletion"}

\* the other variables of the model, which the database leaves alone
notDBVars ==
    <<pricerVars, greeks, rng, mcVars, timeVars, adviceVars, gateVars>>

\* WHERE session_id = ?
SessionMatches(row, s) == row.session_id = s

\* the rows of a table that a WHERE clause on the session id selects
RowsOf(table, s) == SelectSeq(table, LAMBDA row : SessionMatches(row, s))

\* a DELETE that has no WHERE clause
DeleteMatches_All(row, s) == TRUE

\* DELETE FROM acceptances WHERE session_id = ?
DeleteMatches(row, s) == SessionMatches(row, s)

\* the rows a DELETE leaves in the table
RowsKept(table, s) == SelectSeq(table, LAMBDA row : ~DeleteMatches(row, s))

\* a sequence back to front
Reversed(seq) == [i \in 1 .. Len(seq) |-> seq[Len(seq) + 1 - i]]

\* SELECT * FROM acceptances WHERE session_id = ? ORDER BY timestamp DESC;
\* a row's timestamp is the time of its insertion, so the latest row is first
get_user_data(table, s) == Reversed(RowsOf(table, s))

\* the two tables as a call finds them
Tables == [acceptances |-> acceptances, data_requests |-> data_requests]

\* record_acceptance: one row inserted, its id returned
RecordAcceptance(s) ==
    /\ acc_seq < MaxRows
    /\ acc_seq' = acc_seq + 1
    /\ acceptances' = Append(acceptances, [id |-> acc_seq', session_id |-> s])
    /\ db0' = Tables
    /\ dbop' = [name |-> "record_acceptance", session_id |-> s]
    /\ dbret' = acc_seq'
    /\ UNCHANGED <<data_requests, req_seq>>
    /\ UNCHANGED notDBVars

\* get_user_data: the rows of the session returned, nothing written
GetUserData(s) ==
    /\ db0' = Tables
    /\ dbop' = [name |-> "get_user_data", session_id |-> s]
    /\ dbret' = get_user_data(acceptances, s)
    /\ UNCHANGED <<acceptances, data_requests, acc_seq, req_seq>>
    /\ UNCHANGED notDBVars

\* delete_user_data: the request logged as completed, the rows of the
\* session deleted, the count of the deleted rows returned
DeleteUserData(s) ==
    /\ req_seq < MaxRows
    /\ req_seq' = req_seq + 1
    /\ data_requests' =
          Append(data_requests,
                 [id |-> req_seq', session_id |-> s,
                  request_type |-> "deletion", status |-> "completed"])
    /\ acceptances' = RowsKept(acceptances, s)
    /\ dbret' = Len(acceptances) - Len(acceptances')
    /\ db0' = Tables
    /\ dbop' = [name |-> "delete_user_data", session_id |-> s]
    /\ UNCHANGED acc_seq
    /\ UNCHANGED notDBVars

\* log_data_request: one row inserted with the default status
LogDataRequest(s, request_type) ==
    /\ req_seq < MaxRows
    /\ req_seq' = req_seq + 1
    /\ data_requests' =
          Append(data_requests,
                 [id |-> req_seq', session_id |-> s,
                  request_type |-> request_type, status |-> "pending"])
    /\ db0' = Tables
    /\ dbop' = [name |-> "log_data_request", session_id |-> s]
    /\ dbret' = "None"
    /\ UNCHANGED <<acceptances, acc_seq>>
    /\ UNCHANGED notDBVars

\* the database as init_database creates it, no call made yet
DBIdle ==
    /\ acceptances = <<>>
    /\ data_requests = <<>>
    /\ acc_seq = 0
    /\ req_seq = 0
    /\ db0 = [acceptances |-> <<>>, data_requests |-> <<>>]
    /\ dbop = [name |-> "none", session_id |-> "none"]
    /\ dbret = "None"

\* the application around the pricers is not running
AppIdle == AdviceIdle /\ GateIdle /\ DBIdle

\* no Monte Carlo call is made
MCIdle ==
    /\ rng0 = rng
    /\ wk = [w \in Threads |-> IdleCall]
    /\ first = NoCall
    /\ calls = 0

\* no call of the analytic or the lattice pricer is made
PricerIdle ==
    /\ op = "none"
    /\ args = NoArgs
    /\ pc = "off"
    /\ ret = NoValue
    /\ divs = 0
    /\ lat = NoLat
    /\ ap = <<>>
    /\ ov = <<>>
    /\ step = -1
    /\ idx = 0
    /\ node = NoNode
    /\ nodes = 0
    /\ greeks = NoGreeks

\* ------------------------------------------------------------------------
\* The analytic and the lattice pricer, each called once on any arguments
\* ------------------------------------------------------------------------

Init ==
    /\ op \in {"bs", "bt"}
    /\ args \in (IF op = "bs" THEN BSArgs ELSE BTArgs)
    /\ pc = "start"
    /\ ret = NoValue
    /\ divs = 0
    /\ lat = NoLat
    /\ ap = <<>>
    /\ ov = <<>>
    /\ step = -1
    /\ idx = 0
    /\ node = NoNode
    /\ nodes = 0
    /\ greeks = NoGreeks
    /\ rng = 0
    /\ MCIdle
    /\ TimeIdle
    /\ AppIdle

Next ==
    \/ BlackScholesCall
    \/ BinomialEntry
    \/ BinomialNode
    \/ BinomialReturn

Spec == Init /\ [][Next]_vars

\* ------------------------------------------------------------------------
\* Properties of the analytic and the lattice pricer
\* ------------------------------------------------------------------------

Max(m, n) == IF m >= n THEN m ELSE n

\* the intrinsic payoff of the call's arguments, in units
Payoff(a) == IF a.type = "call" THEN Max(a.S - a.K, 0) ELSE Max(a.K - a.S, 0)

\* the outcome of a call that failed with a DomainError
DomainError == [t |-> "DomainError", v |-> 0]

\* C1: black_scholes called with T <= 0 returns exactly the intrinsic payoff
\* (max(S-K,0) for a call, max(K-S,0) for a put) and never evaluates the
\* d1/d2 division.
C1_ExpiredIsIntrinsic ==
    (pc = "done" /\ op = "bs" /\ args.T <= 0)
        => (ret = Fin(Payoff(args)) /\ divs = 0)

C1_Witness ==
    /\ pc = "done" /\ op = "bs"
    /\ args.T = 0 /\ args.type = "call" /\ args.S > args.K
    /\ ret = Fin(args.S - args.K)
    /\ divs = 0

\* C2: binomial_tree_american called with T <= 0 or N <= 0 returns exactly
\* the intrinsic payoff and builds no lattice: it never enters the backward
\* induction and its arrays stay empty.
C2_DegenerateIsIntrinsic ==
    (op = "bt" /\ (args.T <= 0 \/ args.N <= 0))
        => /\ pc \in {"start", "done"}
           /\ lat = NoLat /\ ap = <<>> /\ ov = <<>> /\ nodes = 0
           /\ pc = "done" => ret = Fin(Payoff(args))

C2_Witness ==
    /\ pc = "done" /\ op = "bt"
    /\ args.T > 0 /\ args.N = 0 /\ args.type = "put" /\ args.S < args.K
    /\ ret = Fin(args.K - args.S)
    /\ ov = <<>>

\* C3: with T > 0 and N >= 1 the value stored for every interior node
\* (step, i) is >= the intrinsic payoff at the node's stock price
\* S*u^(step-i)*d^i and >= the discounted continuation value, and the
\* returned root value is >= the intrinsic payoff at S.
C3_EarlyExerciseAtEveryNode ==
    /\ (op = "bt" /\ nodes > 0)
          => /\ FGe(ov[node.i + 1],
                    Intrinsic(args.type,
                              NodePrice(args, lat, node.step - node.i, node.i),
                              Fin(args.K)))
             /\ FGe(ov[node.i + 1], node.cont)
    /\ (op = "bt" /\ pc = "done" /\ args.T > 0 /\ args.N >= 1)
          => FGe(ret, Fin(Payoff(args)))

\* C4: binomial_tree_american returns a nonnegative value for every input and
\* every node value held during the backward induction is nonnegative, also
\* when the risk-neutral probability p lies outside [0,1].
C4_NodeValuesNonnegative ==
    op = "bt"
        => /\ \A k \in DOMAIN ov : FGe(ov[k], Zero)
           /\ pc = "done" => FGe(ret, Zero)

\* C5: black_scholes called with T > 0 and sigma <= 0 fails with a
\* DomainError reported to the caller instead of returning a value.
C5_NonPositiveSigmaFails ==
    (pc = "done" /\ op = "bs" /\ args.T > 0 /\ args.sigma <= 0)
        => ret = DomainError

\* C6: no pricing operation returns NaN or an infinity: what a call returns
\* is a finite number, or an error propagated to the caller.
C6_NoNaNReturned ==
    pc = "done" => (IsFin(ret) \/ ret = DomainError)

\* C10: for T > 0 and sigma > 0 the analytic call price minus the analytic
\* put price is S - K*e^(-rT), within two units of rounding.
C10_PutCallParity ==
    (pc = "done" /\ op = "bs" /\ args.T > 0 /\ args.sigma > 0)
        => LET call == IF args.type = "call" THEN ret
                       ELSE black_scholes([args EXCEPT !.type = "call"])
               put == IF args.type = "put" THEN ret
                      ELSE black_scholes([args EXCEPT !.type = "put"])
               forward == FSub(Fin(args.S), DiscountedStrike(args))
           IN  /\ IsFin(call) /\ IsFin(put)
               /\ Abs((call.v - put.v) - forward.v) <= 2

C10_Witness ==
    /\ pc = "done" /\ op = "bs"
    /\ args.T > 0 /\ args.sigma > 0 /\ args.type = "put"
    /\ IsFin(ret) /\ ret.v > 0
    /\ black_scholes([args EXCEPT !.type = "call"]).v > ret.v

\* ------------------------------------------------------------------------
\* One thread making Monte Carlo calls one after the other
\* ------------------------------------------------------------------------

\* the number of calls the sequential caller makes
MaxCalls == 2

\* the caller takes the array returned and goes on to its next call
CallerContinues ==
    /\ wk[1].pc = "done"
    /\ calls + 1 < MaxCalls
    /\ first' = IF first = NoCall
                THEN [op |-> wk[1].op, args |-> wk[1].args, ret |-> wk[1].ret]
                ELSE first
    /\ wk' = [wk EXCEPT ![1] = IdleCall]
    /\ calls' = calls + 1
    /\ UNCHANGED <<rng, rng0, pricerVars, greeks, timeVars, appVars>>

InitMC ==
    /\ PricerIdle
    /\ rng \in 0 .. (RngMod - 1)
    /\ MCIdle
    /\ TimeIdle
    /\ AppIdle

NextMC ==
    \/ \E a \in SimArgs : SimulationCall(1, a)
    \/ \E a \in PathArgs \cup ExtremePathArgs : PathsEntry(1, a)
    \/ PathsColumn(1)
    \/ PathsReturn(1)
    \/ CallerContinues

SpecMC == InitMC /\ [][NextMC]_vars

\* C7: every pricing call is referentially transparent and shares no mutable
\* state with other calls: no call changes the state later calls read (the
\* random generator stays as it was), and what a call returns is what the
\* same call returns when it is the first call of the process.
C7_NoSharedMutableState ==
    /\ rng = rng0
    /\ wk[1].pc = "done"
          => wk[1].ret = RunAlone(wk[1].op, wk[1].args, rng0)

\* C8: two calls of a simulator given the same arguments (the random seed
\* being one of them) return identical arrays.
C8_SameInputsSameArray ==
    (wk[1].pc = "done" /\ first.op = wk[1].op /\ first.args = wk[1].args)
        => wk[1].ret = first.ret

\* ------------------------------------------------------------------------
\* Two threads, each making one Monte Carlo call
\* ------------------------------------------------------------------------

NextPar ==
    \E w \in Threads :
        \/ \E a \in SimArgs : SimulationCall(w, a)
        \/ \E a \in PathArgs \cup ExtremePathArgs : PathsEntry(w, a)
        \/ PathsColumn(w)
        \/ PathsReturn(w)

SpecPar == InitMC /\ [][NextPar]_vars

\* C9: calls running concurrently, their draws interleaved in any order, each
\* return what they would have returned running alone from the random source
\* they started from.
C9_ParallelCallsIndependent ==
    \A w \in Threads :
        wk[w].pc = "done"
            => wk[w].ret = RunAlone(wk[w].op, wk[w].args, wk[w].seed)

\* ------------------------------------------------------------------------
\* The American call against the European value of the same lattice
\* ------------------------------------------------------------------------

\* the backward induction without the early-exercise max
RECURSIVE EuropeanInduction(_, _, _, _, _)
EuropeanInduction(a, l, values, s, i) ==
    IF s < 0 THEN values[1]
    ELSE LET next == [values EXCEPT ![i + 1] = Continuation(a, l, values, i)]
         IN  IF i < s THEN EuropeanInduction(a, l, next, s, i + 1)
             ELSE EuropeanInduction(a, l, next, s - 1, 0)

\* the European value at the root of the lattice of a
EuropeanRoot(a) ==
    EuropeanInduction(a, Lattice(a),
                      TerminalValues(a, TerminalPrices(a, Lattice(a))),
                      a.N - 1, 0)

\* a call priced on a lattice with T > 0, sigma > 0 and N >= 1
LatticeCall ==
    /\ op = "bt" /\ args.type = "call"
    /\ args.T > 0 /\ args.sigma > 0 /\ args.N >= 1

\* 0.01, the tolerance of the spec's lattice cross-check
Cent == SCALE \div 100

\* at the node updated last the exercise value does not exceed the
\* continuation value, and the value returned is the European value of the
\* same lattice, both within 0.01
NoEarlyExercise ==
    /\ nodes > 0 => node.ex.v <= node.cont.v + Cent
    /\ pc = "done" => Abs(ret.v - EuropeanRoot(args).v) <= Cent

InitGreeks ==
    /\ op = "greeks"
    /\ args \in BSArgs
    /\ pc = "start"
    /\ ret = NoValue
    /\ divs = 0
    /\ lat = NoLat
    /\ ap = <<>>
    /\ ov = <<>>
    /\ step = -1
    /\ idx = 0
    /\ node = NoNode
    /\ nodes = 0
    /\ greeks = NoGreeks
    /\ rng = 0
    /\ MCIdle
    /\ TimeIdle
    /\ AppIdle

NextGreeks == CalculateGreeksCall

SpecGreeks == InitGreeks /\ [][NextGreeks]_vars

GreekNames == {"delta", "gamma", "theta", "vega", "rho"}

GreeksReturned == op = "greeks" /\ pc = "done"

\* the arguments with the other option type
OtherType(a) ==
    [a EXCEPT !.type = IF a.type = "call" THEN "put" ELSE "call"]

\* C12: calculate_greeks called with T <= 0 returns delta, gamma, theta, vega
\* and rho all equal to zero, for every S, K, r, sigma and option type.
C12_ExpiredGreeksAreZero ==
    (GreeksReturned /\ args.T <= 0)
        => \A g \in GreekNames : greeks[g] = Zero

C12_Witness ==
    /\ GreeksReturned
    /\ args.T = 0 /\ args.sigma = 0 /\ args.S > args.K /\ args.type = "call"
    /\ \A g \in GreekNames : greeks[g] = Zero

\* C13: for the same S, K, T > 0, r and sigma > 0 the gamma and the vega
\* returned for a call and for a put are the same.
C13_GammaVegaIgnoreType ==
    (GreeksReturned /\ args.T > 0 /\ args.sigma > 0)
        => /\ greeks.gamma = calculate_greeks(OtherType(args)).gamma
           /\ greeks.vega = calculate_greeks(OtherType(args)).vega

C13_Witness ==
    /\ GreeksReturned /\ args.T > 0 /\ args.sigma > 0 /\ args.type = "put"
    /\ IsFin(greeks.gamma) /\ greeks.gamma.v > 0
    /\ IsFin(greeks.vega) /\ greeks.vega.v > 0
    /\ greeks.delta # calculate_greeks(OtherType(args)).delta

\* C14: for T > 0 and sigma > 0 the call delta lies in [0, 1], the put delta
\* in [-1, 0], and the put delta is the call delta minus 1.
C14_DeltaRanges ==
    (GreeksReturned /\ args.T > 0 /\ args.sigma > 0)
        => /\ IsFin(greeks.delta)
           /\ args.type = "call"
                => (greeks.delta.v >= 0 /\ greeks.delta.v <= SCALE)
           /\ args.type = "put"
                => /\ greeks.delta.v >= -SCALE /\ greeks.delta.v <= 0
                   /\ greeks.delta.v
                        = calculate_greeks(OtherType(args)).delta.v - SCALE

C14_Witness ==
    /\ GreeksReturned /\ args.T > 0 /\ args.sigma > 0 /\ args.type = "put"
    /\ greeks.delta.v > -SCALE /\ greeks.delta.v < 0
    /\ calculate_greeks(OtherType(args)).delta.v = greeks.delta.v + SCALE

\* value is raw divided by k, to the rounding of one division
DividedBy(value, raw, k) ==
    IF IsFin(raw) THEN IsFin(value) /\ 2 * Abs(value.v * k - raw.v) <= k
    ELSE value = raw

\* C15: the theta returned is the annualized theta divided by 365, the vega
\* the raw vega divided by 100, the rho the raw rho divided by 100; delta and
\* gamma are returned as computed.
C15_GreeksUnits ==
    (GreeksReturned /\ args.T > 0)
        => /\ DividedBy(greeks.theta, GreeksTheta(args), 365)
           /\ DividedBy(greeks.vega, GreeksVega(args), 100)
           /\ DividedBy(greeks.rho, GreeksRho(args), 100)
           /\ greeks.delta = GreeksDelta(args)
           /\ greeks.gamma = GreeksGamma(args)

C15_Witness ==
    /\ GreeksReturned /\ args.T > 0 /\ args.sigma > 0
    /\ greeks.theta.v < 0 /\ greeks.theta.v * 365 # greeks.theta.v
    /\ greeks.vega.v > 0 /\ GreeksVega(args).v > greeks.vega.v
    /\ greeks.rho.v > 0 /\ GreeksRho(args).v > greeks.rho.v
    /\ greeks.gamma.v > 0

\* ------------------------------------------------------------------------
\* Properties of the simulators' results
\* ------------------------------------------------------------------------

SimulationReturned == wk[1].pc = "done" /\ wk[1].op = "sim"

\* C16: monte_carlo_simulation returns exactly num_simulations prices; when
\* T <= 0 every one of them equals S and no random variate is drawn.
C16_SimulationLength ==
    SimulationReturned
        => /\ DOMAIN wk[1].ret = 1 .. wk[1].args.M
           /\ wk[1].args.T <= 0
                => /\ \A k \in 1 .. wk[1].args.M :
                        wk[1].ret[k] = Fin(wk[1].args.S)
                   /\ rng = wk[1].seed

C16_Witness ==
    /\ SimulationReturned
    /\ wk[1].args.T = 0 /\ wk[1].args.M = MaxM
    /\ wk[1].ret = [k \in 1 .. MaxM |-> Fin(wk[1].args.S)]
    /\ rng = wk[1].seed
    /\ calls > 0 /\ first.op = "sim" /\ first.args.T > 0
    /\ DOMAIN first.ret = 1 .. first.args.M

\* S * e^(rT)
Forward(a) == FMul(Fin(a.S), FExp(FMul(Fin(a.r), Fin(a.T))))

\* C17: monte_carlo_simulation with sigma = 0 and T > 0 returns S*e^(rT) in
\* every trial through a degenerate branch of its own: no standard normal
\* variate is consumed for such a call.
C17_ZeroSigmaBranch ==
    (SimulationReturned /\ wk[1].args.sigma = 0 /\ wk[1].args.T > 0)
        => /\ \A k \in 1 .. wk[1].args.M : wk[1].ret[k] = Forward(wk[1].args)
           /\ rng = wk[1].seed

\* C18: monte_carlo_price_paths returns, for every trial count M >= 1 and every
\* day count, a grid of M rows and `days` columns whose column 0 is S in every
\* row: no call ends without such a grid.
C18_PathsGrid ==
    /\ wk[1].op = "paths" => wk[1].pc \in {"loop", "done"}
    /\ (wk[1].op = "paths" /\ wk[1].pc = "done")
        => /\ Len(wk[1].ret) = wk[1].args.days
           /\ \A c \in 1 .. wk[1].args.days :
                DOMAIN wk[1].ret[c] = 1 .. wk[1].args.M
           /\ wk[1].args.days >= 1
                => \A k \in 1 .. wk[1].args.M :
                        wk[1].ret[1][k] = Fin(wk[1].args.S)

\* ------------------------------------------------------------------------
\* A time utility called once on any date string at any moment
\* ------------------------------------------------------------------------

InitTime ==
    /\ PricerIdle
    /\ rng = 0
    /\ MCIdle
    /\ AppIdle
    /\ dstr \in DateStrings
    /\ now \in Moments
    /\ tpc = "start"
    /\ tret = NoTime
    /\ tcalls = 0
    /\ tfailed = FALSE

NextTime ==
    \/ DaysToExpirationCall
    \/ YearsToExpirationCall
    \/ TimeCallerContinues

SpecTime == InitTime /\ [][NextTime]_vars

\* the hours from the moment read to midnight of the date of the string
HoursLeft == ExpirationHours(dstr) - MomentHours(now)

\* the whole days in a number of hours that is not negative
WholeDays(hours) == CHOOSE n \in 0 .. hours : 
    n * HoursPerDay <= hours /\ hours < (n + 1) * HoursPerDay

\* the day count the contract gives a parsed date
ContractDays == IF HoursLeft <= 0 THEN 0 ELSE WholeDays(HoursLeft)

\* C19: for a date string parsed as midnight D, days_to_expiration returns
\* max(whole days of (D - now), 0): never negative, 0 for a past date and for
\* today's date; years_to_expiration returns that count divided by 365.0.
C19_DaysClamped ==
    /\ (tpc = "days" /\ Parses(dstr))
        => /\ tret = PyInt(ContractDays)
           /\ tret.v >= 0
           /\ Ordinal(dstr.y, dstr.m, dstr.d) <= Ordinal(now.y, now.m, now.d)
                => tret.v = 0
    /\ (tpc = "years" /\ Parses(dstr))
        => /\ IsFin(tret)
           /\ 2 * Abs(tret.v * 365 - ContractDays * SCALE) <= 365

C19_Witness ==
    /\ tpc = "years" /\ Parses(dstr)
    /\ now.h > 0
    /\ tret.v > SCALE
    /\ days_to_expiration(dstr, now).v
         = Ordinal(dstr.y, dstr.m, dstr.d) - Ordinal(now.y, now.m, now.d) - 1

\* the outcome of a call that failed with a FormatError
FormatError == [t |-> "FormatError", v |-> 0]

\* C20: when the date string cannot be parsed, days_to_expiration reports a
\* FormatError to its caller, which is not what it returns for an expiration
\* 0 days away; the 0 is substituted by the caller.
C20_ParseFailureReported ==
    (tpc = "days" /\ ~Parses(dstr)) => tret = FormatError

\* ------------------------------------------------------------------------
\* The induction of the lattice pricer
\* ------------------------------------------------------------------------

\* layer s of the full recombining tree: V[s][i] for i in 0 .. s, each from
\* its two children in layer s + 1
RECURSIVE TreeLayer(_, _, _)
TreeLayer(a, l, s) ==
    IF s >= a.N THEN TerminalValues(a, TerminalPrices(a, l))
    ELSE LET below == TreeLayer(a, l, s + 1)
         IN  [k \in 1 .. (s + 1) |->
                NodeValue(Continuation(a, l, below, k - 1),
                          Intrinsic(a.type, NodePrice(a, l, s - (k - 1), k - 1),
                                    Fin(a.K)))]

\* the lattice is being walked or has been walked
Inducting == op = "bt" /\ ~BTDegenerate(args.T, args.N) /\ pc \in {"induct", "done"}

\* C22: the one-dimensional array computes the values of the full tree: in
\* the pass over layer `step` the slots already processed hold layer `step`,
\* the slots still to be read hold layer step + 1, and the value returned is
\* the tree's root.
C22_InPlaceIsFullTree ==
    /\ (Inducting /\ pc = "induct")
        => /\ \A i \in 0 .. (idx - 1) :
                ov[i + 1] = TreeLayer(args, lat, step)[i + 1]
           /\ \A i \in idx .. (step + 1) :
                ov[i + 1] = TreeLayer(args, lat, step + 1)[i + 1]
    /\ (Inducting /\ pc = "done") => ret = TreeLayer(args, lat, 0)[1]

C22_Witness ==
    /\ Inducting /\ pc = "induct"
    /\ args.N = MaxN /\ args.sigma > 0 /\ args.type = "put"
    /\ step = 1 /\ idx = 1
    /\ ov[1] = TreeLayer(args, lat, 1)[1]
    /\ ov[1] # TreeLayer(args, lat, 2)[1]
    /\ ov[2] = TreeLayer(args, lat, 2)[2]
    /\ ov[2] # TreeLayer(args, lat, 1)[2]

\* the outcome of a call that signalled a domain warning
DomainWarning == [t |-> "DomainWarning", v |-> 0]

\* p is a number outside [0, 1]
BadProbability(p) == IsFin(p) /\ (p.v < 0 \/ p.v > SCALE)

\* C23: when the risk-neutral up-probability falls outside [0, 1] the
\* lattice pricer signals a domain warning instead of returning a price.
C23_BadProbabilityWarned ==
    (Inducting /\ pc = "done" /\ BadProbability(lat.p)) => ret = DomainWarning

\* node updates of the layers above layer s, and of layer s before node i
UpdatesBefore(a, s, i) ==
    (a.N * (a.N + 1)) \div 2 - ((s + 1) * (s + 2)) \div 2 + i

\* the arguments of the runs followed to their end
RunArgs ==
    [S : SVals, K : KVals, T : {0, SCALE \div 4, SCALE}, r : {SCALE \div 20},
     sigma : {SCALE \div 5}, N : 0 .. MaxN, type : OptionTypes]

InitRun ==
    /\ op = "bt"
    /\ args \in RunArgs
    /\ pc = "start"
    /\ ret = NoValue
    /\ divs = 0
    /\ lat = NoLat
    /\ ap = <<>>
    /\ ov = <<>>
    /\ step = -1
    /\ idx = 0
    /\ node = NoNode
    /\ nodes = 0
    /\ greeks = NoGreeks
    /\ rng = 0
    /\ MCIdle
    /\ TimeIdle
    /\ AppIdle

NextRun ==
    \/ BinomialEntry
    \/ BinomialNode
    \/ BinomialReturn

\* the lattice pricer run to its end: the interpreter keeps executing the
\* loops it has entered
SpecRun ==
    InitRun /\ [][NextRun]_vars /\ WF_vars(BinomialNode) /\ WF_vars(BinomialReturn)

\* C24: for T > 0 and N >= 1 the induction terminates: it takes the layers
\* N-1, ..., 0 in that order and the nodes 0 .. step of each in turn, makes
\* N*(N+1)/2 node updates and returns option_values[0].
C24_InductionTerminates ==
    /\ [](Inducting =>
            /\ pc = "induct"
                => /\ step >= -1 /\ step <= args.N - 1
                   /\ idx >= 0 /\ idx <= step + 1
                   /\ nodes = UpdatesBefore(args, step, idx)
                   /\ nodes > 0 => (IF idx > 0
                                    THEN node.step = step /\ node.i = idx - 1
                                    ELSE node.step = step + 1 /\ node.i = step + 1)
            /\ pc = "done"
                => /\ nodes = (args.N * (args.N + 1)) \div 2
                   /\ ret = ov[1])
    /\ (pc = "induct") ~> (pc = "done")

C24_Witness ==
    /\ Inducting /\ pc = "done"
    /\ args.N = MaxN
    /\ nodes = (MaxN * (MaxN + 1)) \div 2
    /\ node.step = 0 /\ node.i = 0
    /\ ret = ov[1]

\* ------------------------------------------------------------------------
\* The columns of the path grid
\* ------------------------------------------------------------------------

\* the generator after n variates drawn from state s
RECURSIVE Advance(_, _)
Advance(s, n) == IF n <= 0 THEN s ELSE Advance(RngNext(s), n - 1)

\* the vector drawn for column t (t >= 1) of a call started at state s
ColumnDraw(s, m, t) == StandardNormal(Advance(s, (t - 1) * m), m).z

PathsRunning == wk[1].op = "paths" /\ wk[1].pc \in {"loop", "done"}

\* C25: monte_carlo_price_paths fills its columns in increasing order with
\* dt = 1/252: column t is column t-1 times exp((r - sigma^2/2)*dt +
\* sigma*sqrt(dt)*z_t) with z_t a vector drawn for that column alone, the
\* columns not yet reached are untouched, and nothing is drawn for column 0.
C25_ColumnByColumn ==
    PathsRunning
        => LET a == wk[1].args
               g == wk[1].paths
               t == wk[1].t
           IN  /\ t >= 1 /\ t <= a.days
               /\ rng = Advance(wk[1].seed, (t - 1) * a.M)
               /\ \A k \in 1 .. a.M : g[1][k] = Fin(a.S)
               /\ \A c \in 1 .. (t - 1) : \A k \in 1 .. a.M :
                    g[c + 1][k]
                      = Lognormal(g[c][k], a.r, a.sigma, DailyStep,
                                  ColumnDraw(wk[1].seed, a.M, c)[k])
               /\ \A c \in (t + 1) .. a.days : \A k \in 1 .. a.M :
                    g[c][k] = Zero
               /\ wk[1].pc = "done" => (t = a.days /\ wk[1].ret = g)

C25_Witness ==
    /\ PathsRunning /\ wk[1].pc = "done"
    /\ wk[1].args.days = MaxDays /\ wk[1].args.M = MaxM
    /\ wk[1].args.sigma > 0 /\ wk[1].args.r > 0
    /\ wk[1].ret[3][1] # wk[1].ret[2][1]
    /\ wk[1].ret[2][1] # wk[1].ret[1][1]
    /\ wk[1].ret[3][1] # wk[1].ret[3][2]
    /\ wk[1].ret[3][1]
         # Lognormal(wk[1].ret[1][1], wk[1].args.r, wk[1].args.sigma,
                     FMul(Fin(2 * SCALE), DailyStep),
                     ColumnDraw(wk[1].seed, MaxM, 2)[1])

\* the largest magnitude of a variate of the generator
ZBound == (3 * SCALE) \div 2

\* the least exponent one daily step can have
StepExponentFloor(a) ==
    FSub(FMul(FSub(Fin(a.r), FMul(Half, FPow(Fin(a.sigma), 2))), DailyStep),
         FMul(FMul(Fin(a.sigma), FSqrt(DailyStep)), Fin(ZBound)))

\* every entry of the returned grid is a number above zero
AllPositive(grid) ==
    \A c \in DOMAIN grid : \A k \in DOMAIN grid[c] :
        IsFin(grid[c][k]) /\ grid[c][k].v > 0

PathsReturned == wk[1].op = "paths" /\ wk[1].pc = "done"

C26_NoExceptionEscapes ==
    /\ tpc = "days"
        => /\ tret.t = "int"
           /\ ~Parses(dstr) => tret = PyInt(0)
           /\ (tfailed /\ Parses(dstr)) => tret = PyInt(ContractDays)
    /\ tpc = "years"
        => /\ IsFin(tret)
           /\ ~Parses(dstr) => tret = Zero
           /\ (tfailed /\ Parses(dstr))
                => 2 * Abs(tret.v * 365 - ContractDays * SCALE) <= 365

C26_Witness ==
    /\ tpc = "days" /\ tcalls > 0 /\ tfailed
    /\ Parses(dstr)
    /\ tret.t = "int" /\ tret.v > 0

\* ------------------------------------------------------------------------
\* The adviser run on a simulated distribution
\* ------------------------------------------------------------------------

CurrentPrices == {9 * SCALE, 10 * SCALE, 11 * SCALE}

\* the largest top_n asked for
MaxTop == 2

InitAdvice ==
    /\ PricerIdle
    /\ rng = 0
    /\ MCIdle
    /\ TimeIdle
    /\ GateIdle
    /\ DBIdle
    /\ \/ /\ \E a \in AdviceSimArgs :
                mcp = ArrayOf(monte_carlo_simulation(a, rng).ret, a.M)
          /\ mcg = <<>>
       \/ /\ mcp = <<>>
          /\ \E a \in AdvicePathArgs :
                mcg = [c \in 1 .. a.days |->
                         ArrayOf(monte_carlo_price_paths(a, rng).ret[c], a.M)]
       \/ /\ mcp = <<>>
          /\ mcg = <<>>
    /\ mcp0 = mcp
    /\ mcg0 = mcg
    /\ analysis = NoAnalysis
    /\ recs = <<>>
    /\ top = <<>>
    /\ apc = "ready"

NextAdvice ==
    \/ \E type \in OptionTypes, row \in OptionRows : RecommendOption(type, row)
    \/ SortRecommendations
    \/ \E n \in 1 .. MaxTop : TopRecommendations(n)
    \/ \E c \in CurrentPrices : AnalyzeFutures(c)

SpecAdvice == InitAdvice /\ [][NextAdvice]_vars

\* C21: the consumers of a simulated distribution leave it unchanged: after
\* any sequence of analyses over any strikes and option types the terminal
\* prices and the path grid are element for element what the simulator
\* returned.
C21_DistributionUnchanged ==
    /\ mcp = mcp0
    /\ mcg = mcg0

C21_Witness ==
    /\ mcp = mcp0 /\ Len(mcp) = MaxDist
    /\ mcp # SortedCopy(mcp)
    /\ Len(recs) = MaxRecs
    /\ recs[1].type = "call" /\ recs[2].type = "put"
    /\ recs[1].strike # recs[2].strike
    /\ analysis.kind = "options" /\ analysis.percentiles[50] # mcp[1]

\* C29: every recommendation has action HOLD exactly when its confidence is
\* LOW; an option with volume < 10 or open interest < 50 is HOLD with LOW
\* confidence whatever its valuation and probability; get_top_recommendations
\* returns no such recommendation.
C29_HoldIffLow ==
    /\ \A k \in 1 .. Len(recs) :
         /\ (recs[k].action = "HOLD") <=> (recs[k].confidence = "LOW")
         /\ (recs[k].volume < 10 \/ recs[k].open_interest < 50)
              => (recs[k].action = "HOLD" /\ recs[k].confidence = "LOW")
    /\ \A k \in 1 .. Len(top) :
         /\ top[k].action # "HOLD" /\ top[k].confidence # "LOW"
         /\ top[k].volume >= 10 /\ top[k].open_interest >= 50

C29_Witness ==
    /\ apc = "top"
    /\ Len(recs) = MaxRecs /\ Len(top) = 1
    /\ \E k \in 1 .. Len(recs) :
         /\ recs[k].valuation = "undervalued"
         /\ recs[k].probability_itm.v > HighProbability
         /\ recs[k].volume < 10
         /\ recs[k].action = "HOLD" /\ recs[k].confidence = "LOW"
    /\ top[1].confidence = "HIGH"

\* ------------------------------------------------------------------------
\* A session of the script from its first run
\* ------------------------------------------------------------------------

InitGate ==
    /\ PricerIdle
    /\ rng = 0
    /\ MCIdle
    /\ TimeIdle
    /\ AdviceIdle
    /\ DBIdle
    /\ legal = "absent"
    /\ checkbox = FALSE
    /\ click = "none"
    /\ gpc = "init"
    /\ ticker = "AAPL"
    /\ current_ticker = "none"
    /\ data_loaded = FALSE
    /\ priced = FALSE

NextGate ==
    \/ UserEvent
    \/ InitialiseSession
    \/ GateCheck
    \/ Disclaimer
    \/ LoadData
    \/ Sections

SpecGate == InitGate /\ [][NextGate]_vars

\* C28: while legal_accepted is False no data is loaded and no pricing or
\* recommendation section is executed; legal_accepted becomes True only in a
\* run where the checkbox is checked and the accept button is pressed; once
\* True it is never reset.
C28_GatedOnDisclaimer ==
    /\ [](legal # "true"
            => /\ gpc \notin {"sidebar", "sections"}
               /\ ~data_loaded
               /\ ~priced
               /\ current_ticker = "none")
    /\ [][/\ (legal # "true" /\ legal' = "true")
                => (checkbox /\ click = "accept" /\ gpc = "disclaimer")
          /\ legal = "true" => legal' = "true"]_vars

C28_Witness ==
    /\ legal = "true" /\ checkbox
    /\ priced /\ data_loaded
    /\ current_ticker = "ES=F"
    /\ gpc = "idle"

\* ---------------------------------------------------------------------
\* The disclaimer database under any sequence of calls
\* ---------------------------------------------------------------------

InitDB ==
    /\ PricerIdle
    /\ rng = 0
    /\ MCIdle
    /\ TimeIdle
    /\ AdviceIdle
    /\ GateIdle
    /\ DBIdle

NextDB ==
    \/ \E s \in Sessions : RecordAcceptance(s)
    \/ \E s \in Sessions : GetUserData(s)
    \/ \E s \in Sessions : DeleteUserData(s)
    \/ \E s \in Sessions, t \in RequestTypes : LogDataRequest(s, t)

SpecDB == InitDB /\ [][NextDB]_vars

\* the last call was delete_user_data
Deleted == dbop.name = "delete_user_data"

\* the row a deletion logs for a session
IsDeletionLog(row, s) ==
    /\ row.session_id = s
    /\ row.request_type = "deletion"
    /\ row.status = "completed"

\* C30: after any sequence of record_acceptance, delete_user_data and
\* log_data_request calls, delete_user_data(s) returns the number of
\* acceptance records held for s, leaves get_user_data(s) empty until the
\* next record_acceptance(s), leaves the records of every other session as
\* they were, and adds exactly one 'deletion'/'completed' row to
\* data_requests, also when it deleted nothing
C30_DeleteUserData ==
    /\ [](Deleted =>
            /\ dbret = Len(RowsOf(db0.acceptances, dbop.session_id))
            /\ get_user_data(acceptances, dbop.session_id) = <<>>
            /\ \A t \in Sessions \ {dbop.session_id} :
                  RowsOf(acceptances, t) = RowsOf(db0.acceptances, t)
            /\ Len(data_requests) = Len(db0.data_requests) + 1
            /\ SubSeq(data_requests, 1, Len(db0.data_requests))
                  = db0.data_requests
            /\ IsDeletionLog(data_requests[Len(data_requests)],
                             dbop.session_id))
    /\ [][\A s \in Sessions :
            (/\ get_user_data(acceptances, s) = <<>>
             /\ get_user_data(acceptances', s) # <<>>)
               => dbop' = [name |-> "record_acceptance", session_id |-> s]]_vars

\* a second deletion for s1 that found nothing to delete, after a first one
\* that deleted its record, while s2 keeps its record
C30_Witness ==
    /\ Deleted
    /\ dbop.session_id = "s1"
    /\ dbret = 0
    /\ acc_seq = 2
    /\ Len(RowsOf(acceptances, "s2")) = 1
    /\ Len(data_requests) = 2
    /\ \A i \in 1 .. 2 : IsDeletionLog(data_requests[i], "s1")

============================================================================
